---- MODULE Spec2Model ----
(***************************************************************************)
(* A model of src/app.py, the Cheonan DRT dashboard: a Streamlit script    *)
(* that loads four route shapefiles into a stop catalog (load_data), and,  *)
(* on the "optimize" button, asks the Mapbox directions service for a path *)
(* between the two selected stops and stores it in the session state as    *)
(* the current result (order, segments, duration, distance).               *)
(*                                                                         *)
(* Coordinates are integers on a planar grid of metres; NaN is a           *)
(* distinguished value.  Durations are whole seconds and distances whole   *)
(* metres; the stored quotients td / 60 and tl / 1000 are kept as reduced  *)
(* fractions <<numerator, denominator>>.                                   *)
(***************************************************************************)
EXTENDS Integers, Sequences, FiniteSets, TLC

VARIABLES
    files,       \* the four shapefiles ./drt_1.shp .. ./drt_4.shp as read by gpd.read_file
    G,           \* what load_graph returns (cached): ok = FALSE for None, else the graph's edges
    pc,          \* "boot" | "halted" (st.stop) | "idle" | "legs" (inside the optimize loop)
    gdf,         \* the stop catalog (rows of the GeoDataFrame); <<>> stands for None
    bus_routes,  \* the keys of the dict route name -> loaded frame
    keys,        \* the keys present in st.session_state
    order,       \* st.session_state["order"]
    segments,    \* st.session_state["segments"]
    duration,    \* st.session_state["duration"]
    distance,    \* st.session_state["distance"]
    kpis,        \* avg_wait_time, pickup_success_rate, vehicle_utilization (tenths)
    stops,       \* local: [start, end] of the run in progress
    snapped,     \* local: the snapped coordinates of the run in progress
    leg,         \* local: the loop index i of the request loop (1-based)
    segs,        \* local: accepted geometries
    td,          \* local: summed duration (s)
    tl,          \* local: summed distance (m)
    resp_log,    \* the responses the directions service gave in the run in progress
    nreq,        \* the number of remote requests issued by the latest optimize run
    msgs         \* the message kinds shown by the latest button handler

vars == <<files, G, pc, gdf, bus_routes, keys, order, segments, duration,
          distance, kpis, stops, snapped, leg, segs, td, tl, resp_log, nreq, msgs>>

slot == <<order, segments, duration, distance>>

(***************************************************************************)
(* Bounds and program constants                                            *)
(***************************************************************************)
\* the most coordinates a route line is given
MaxPts == 2

\* the most legs the request loop is run over on its own (SpecLegs)
MaxLegs == 2

\* range(1, 5): the routes DRT-1 .. DRT-4
NumRoutes == 4

\* min_gap_meters of the specification's dedup pass; the code has no such pass
MinGapMeters == 10

\* float('nan') as a coordinate value (pd.isna)
NaN == -1

IsNa(v) == v = NaN

(***************************************************************************)
(* Small helpers                                                           *)
(***************************************************************************)
RECURSIVE GCD(_, _)
GCD(a, b) == IF b = 0 THEN a ELSE GCD(b, a % b)

\* the float n / d, as a reduced fraction
Quot(n, d) == LET g == GCD(n, d) IN <<n \div g, d \div g>>

\* 0.0
Zero == <<0, 1>>

SelectSeqIdx(s, Test(_)) ==
    LET F[k \in 0..Len(s)] ==
            IF k = 0 THEN <<>>
            ELSE IF Test(s[k]) THEN Append(F[k - 1], s[k]) ELSE F[k - 1]
    IN F[Len(s)]

(***************************************************************************)
(* load_data                                                               *)
(***************************************************************************)
\* f"DRT-{i}호선"
RouteName(i) == "DRT-" \o ToString(i) \o "-line"

\* a variant that names a stop by its ordinal alone
StopNameOrdinal(i, n) == ToString(n) \o "-stop"

\* f"DRT-{i}호선 {j+1}번 정류장", n = j + 1
StopName(i, n) == RouteName(i) \o " " \o ToString(n) \o "-stop"

\* one row of all_stops, for the coordinate at 0-based position j of route i
StopRow(i, j, c) ==
    [name    |-> StopName(i, j + 1),
     route   |-> RouteName(i),
     lon     |-> c[1],
     lat     |-> c[2],
     stop_id |-> "drt_" \o ToString(i) \o "_" \o ToString(j + 1),
     zone    |-> "Zone-" \o ToString((j \div 3) + 1)]

\* for j, (lon, lat) in enumerate(coords): all_stops.append({...})
EmitStops(i, coords) == [n \in 1..Len(coords) |-> StopRow(i, n - 1, coords[n])]

\* a variant of the handler that throws away what was collected so far
RouteErrorDrop(acc) == [acc EXCEPT !.all_stops = <<>>]

\* except Exception as route_error: st.warning(...); continue
RouteError(acc) == acc

\* bus_routes[f"DRT-{i}호선"] = route_data
RegisterRoute(acc, i, f) == [acc EXCEPT !.bus_routes = @ \cup {RouteName(i)}]

\* the body of the loop for route i, reading file f.  The coordinates of one
\* geometry all have the same dimension (a shapefile has one shape type), so
\* the unpacking into (lon, lat) fails at the first coordinate or not at all.
\* The coords property of a multi-part geometry raises NotImplementedError,
\* which hasattr(geom, 'coords') lets through: the elif on 'geoms' is not
\* reached for the geometries gpd.read_file gives
LoadRoute(acc, i, f) ==
    IF f.kind = "unreadable"
    THEN RouteError(acc)                       \* gpd.read_file raises
    ELSE LET acc1 == RegisterRoute(acc, i, f)
         IN CASE f.kind = "empty"  -> acc1     \* route_data.empty
              [] f.kind = "other"  -> acc1     \* unsupported geometry: warning, continue
              [] f.kind = "raises" -> RouteError(acc1)  \* attribute access raises
              [] f.kind = "geoms"  -> RouteError(acc1)  \* hasattr(geom, 'coords') raises
              [] OTHER ->
                   IF f.dim # 2 /\ f.coords # <<>>
                   THEN RouteError(acc1)       \* (lon, lat) = a 3-tuple raises at once
                   ELSE [acc1 EXCEPT !.all_stops = @ \o EmitStops(i, f.coords)]

RECURSIVE LoadFrom(_, _, _)
\* for i in range(1, 5)
LoadFrom(acc, i, fs) ==
    IF i > NumRoutes THEN acc
    ELSE LoadFrom(LoadRoute(acc, i, fs[i]), i + 1, fs)

\* load_data(): (all_stops, bus_routes); an empty all_stops is returned as None
load_data(fs) == LoadFrom([bus_routes |-> {}, all_stops |-> <<>>], 1, fs)

(***************************************************************************)
(* The shapefiles the model reads                                          *)
(***************************************************************************)
Unreadable == [kind |-> "unreadable"]
EmptyFrame == [kind |-> "empty"]
Unsupported == [kind |-> "other"]
Raising == [kind |-> "raises"]
LineFile(cs, d) == [kind |-> "coords", coords |-> cs, dim |-> d]
MultiFile(ls) == [kind |-> "geoms", lines |-> ls, dim |-> 2]

\* the j-th point of the line of route i: alternately 6 m and 24 m apart
PointAt(i, j) == <<30 * ((j - 1) \div 2) + 6 * ((j - 1) % 2), 10 * i>>

Track(i, n) == [j \in 1..n |-> PointAt(i, j)]

\* a line whose second coordinate is NaN
NaNLine(i) == LineFile(<<PointAt(i, 1), <<NaN, NaN>>>>, 2)

\* a multi-part geometry (MultiLineString): a two-point line and a part
\* repeating its last point
TwoParts(i) == MultiFile(<<Track(i, 2), <<PointAt(i, 2)>>>>)

\* what ./drt_{i}.shp can hold
ShpFiles(i) ==
    {Unreadable, EmptyFrame, Unsupported, Raising, NaNLine(i), TwoParts(i),
     LineFile(Track(i, 2), 3)}
    \cup {LineFile(Track(i, n), 2) : n \in 0..MaxPts}

FileSets == {fs \in [1..NumRoutes -> UNION {ShpFiles(i) : i \in 1..NumRoutes}] :
                \A i \in 1..NumRoutes : fs[i] \in ShpFiles(i)}

\* the file sets the session is followed on: a line on route 1, a single point
\* on route 2, a stop without coordinates on route 3, a frame without rows on
\* route 4; and the set with no readable file
SessionFiles(n) ==
    [i \in 1..NumRoutes |->
        CASE i = 1 -> LineFile(Track(1, n), 2)
          [] i = 2 -> LineFile(Track(2, 1), 2)
          [] i = 3 -> NaNLine(3)
          [] OTHER -> EmptyFrame]

SessionFileSets ==
    {SessionFiles(n) : n \in 2..MaxPts} \cup {[i \in 1..NumRoutes |-> Unreadable]}

(***************************************************************************)
(* Session defaults                                                        *)
(***************************************************************************)
\* the keys of DEFAULTS the model follows
DefaultKeys == {"order", "segments", "duration", "distance",
                "avg_wait_time", "pickup_success_rate", "vehicle_utilization"}

\* DEFAULTS: 8.5, 94.3, 78.2 (in tenths)
DefaultKpis == [avg_wait_time |-> 85, pickup_success_rate |-> 943,
                vehicle_utilization |-> 782]

\* simulate_clicked: 7.2, 96.1, 82.5 (in tenths)
SimulatedKpis == [avg_wait_time |-> 72, pickup_success_rate |-> 961,
                  vehicle_utilization |-> 825]

\* for k, v in DEFAULTS.items(): if k not in st.session_state: st.session_state[k] = v
InitDefault(k, current, v) == IF k \in keys THEN current ELSE v

(***************************************************************************)
(* The road graph and the snapping of the two selected stops               *)
(***************************************************************************)
NoGraph == [ok |-> FALSE, edges |-> <<>>]

\* two streets: one along lat = 12, one along lon = 3
StreetGraph == [ok |-> TRUE,
                edges |-> <<[a |-> <<0, 12>>, b |-> <<40, 12>>],
                            [a |-> <<3, 0>>, b |-> <<3, 50>>]>>]

Graphs == {NoGraph, StreetGraph}

Min(a, b) == IF a < b THEN a ELSE b
Max(a, b) == IF a < b THEN b ELSE a
Clamp(v, lo, hi) == Max(lo, Min(v, hi))

Dist2(p, q) == (p[1] - q[1]) * (p[1] - q[1]) + (p[2] - q[2]) * (p[2] - q[2])

\* ln.geometry.interpolate(ln.geometry.project(pt)) for an axis-parallel edge
NearestOn(e, p) ==
    IF e.a[2] = e.b[2]
    THEN <<Clamp(p[1], Min(e.a[1], e.b[1]), Max(e.a[1], e.b[1])), e.a[2]>>
    ELSE <<e.a[1], Clamp(p[2], Min(e.a[2], e.b[2]), Max(e.a[2], e.b[2]))>>

\* edges.geometry.distance(pt), squared
EdgeDist2(e, p) == Dist2(NearestOn(e, p), p)

\* edges["d"].idxmin(): the first edge at the least distance
IdxMin(edges, p) ==
    CHOOSE k \in 1..Len(edges) :
        /\ \A m \in 1..Len(edges) : EdgeDist2(edges[k], p) <= EdgeDist2(edges[m], p)
        /\ \A m \in 1..(k - 1) : EdgeDist2(edges[m], p) > EdgeDist2(edges[k], p)

\* cat[cat["name"] == nm], for a catalog cat
Matching(cat, nm) == SelectSeqIdx(cat, LAMBDA r : r.name = nm)

\* gdf[gdf["name"] == nm]
MatchingRows(nm) == Matching(gdf, nm)

\* a variant that takes a stop without coordinates as it is
UsableRowAny(rows) == rows # <<>>

\* not matching_rows.empty and not (pd.isna(r.lon) or pd.isna(r.lat))
UsableRow(rows) == rows # <<>> /\ ~(IsNa(rows[1].lon) \/ IsNa(rows[1].lat))

\* the names of `names` that have a usable row, in order
UsableNames(cat, names) == SelectSeqIdx(names, LAMBDA nm : UsableRow(Matching(cat, nm)))

\* the warnings of the snapping loop for the names it skips
SnapWarnings(cat, names) ==
    {"not_found" : k \in {k \in 1..Len(names) : Matching(cat, names[k]) = <<>>}}
    \cup {"no_coords" : k \in {k \in 1..Len(names) :
                                  /\ Matching(cat, names[k]) # <<>>
                                  /\ ~UsableRow(Matching(cat, names[k]))}}

\* a variant of the snapping that has no coordinates to give without edges
SnapPointNeedsEdges(edges, r) ==
    IF edges = <<>> THEN <<NaN, NaN>>
    ELSE NearestOn(edges[IdxMin(edges, <<r.lon, r.lat>>)], <<r.lon, r.lat>>)

\* the coordinates appended for row r: its own, or the nearest point of the nearest edge
SnapPoint(edges, r) ==
    IF edges = <<>> THEN <<r.lon, r.lat>>        \* edges is None or edges.empty
    ELSE NearestOn(edges[IdxMin(edges, <<r.lon, r.lat>>)], <<r.lon, r.lat>>)

\* the position in names of the first name that has a usable row (0 when none)
FirstUsable(cat, names) ==
    LET ks == {k \in 1..Len(names) : UsableRow(Matching(cat, names[k]))}
    IN IF ks = {} THEN 0 ELSE CHOOSE k \in ks : \A m \in ks : k <= m

\* the warnings of the except branch: .iloc[0] of an empty selection raises,
\* a row without coordinates is passed over silently
RetryWarnings(cat, names) ==
    {"coord_error" : k \in {k \in 1..Len(names) : Matching(cat, names[k]) = <<>>}}

\* the snapping loop and its except branch: the list `snapped` and the messages.
\* edges is <<>> for None; raises: the distance computation throws, which it
\* does at the first name that reaches it, so the loop warns only about the
\* names before that one
SnapIn(cat, names, edges, raises) ==
    LET usable == UsableNames(cat, names)
        thrown == raises /\ edges # <<>> /\ usable # <<>>
    IN [snapped |-> [k \in 1..Len(usable) |->
                        LET r == Matching(cat, usable[k])[1]
                        IN IF thrown THEN <<r.lon, r.lat>> ELSE SnapPoint(edges, r)],
        msgs |-> IF thrown
                 THEN SnapWarnings(cat, SubSeq(names, 1, FirstUsable(cat, names) - 1))
                         \cup {"snap_error"} \cup RetryWarnings(cat, names)
                 ELSE SnapWarnings(cat, names)]

\* the snapping block on the session's catalog
Snap(names, edges, raises) == SnapIn(gdf, names, edges, raises)

(***************************************************************************)
(* The directions service                                                  *)
(***************************************************************************)
Timeout == [kind |-> "timeout", status |-> 0, routes |-> <<>>]
NetError == [kind |-> "error", status |-> 0, routes |-> <<>>]
Http(st, rs) == [kind |-> "http", status |-> st, routes |-> rs]

\* a duration or distance of the answer that is not a number (null, a text)
Null == -2

IsNumber(v) == v # Null

Route(cs, hd, d, hl, l) ==
    [has_geom |-> TRUE, coordinates |-> cs, has_dur |-> hd, duration |-> d,
     has_dist |-> hl, distance |-> l]

RouteA == Route(<<<<127, 368>>, <<128, 369>>>>, TRUE, 120, TRUE, 1500)
RouteB == Route(<<<<0, 0>>, <<3, 4>>, <<6, 8>>>>, TRUE, 90, TRUE, 700)
RouteNoMetrics == Route(<<<<0, 0>>, <<6, 0>>>>, FALSE, 0, FALSE, 0)
RouteNoPoints == Route(<<>>, TRUE, 30, TRUE, 0)
RouteOnePoint == Route(<<<<6, 0>>>>, TRUE, 45, TRUE, 0)
RouteDurationNull == Route(<<<<0, 0>>, <<6, 0>>>>, TRUE, Null, TRUE, 1500)
RouteDistanceText == Route(<<<<0, 0>>, <<6, 0>>>>, TRUE, 120, TRUE, Null)
RouteNoGeom == [RouteA EXCEPT !.has_geom = FALSE]

\* what requests.get(url, params, timeout=10) can give
Responses ==
    {Timeout, NetError, Http(500, <<>>), Http(200, <<>>), Http(200, <<RouteA>>),
     Http(200, <<RouteB, RouteA>>), Http(200, <<RouteNoMetrics>>),
     Http(200, <<RouteNoPoints>>), Http(200, <<RouteOnePoint>>),
     Http(200, <<RouteNoGeom>>), Http(200, <<RouteDurationNull>>),
     Http(200, <<RouteDistanceText>>)}

\* a variant of the acceptance test that also wants two coordinates or more
AcceptedTwoPoints(resp) ==
    /\ resp.kind = "http"
    /\ resp.status = 200
    /\ resp.routes # <<>>
    /\ resp.routes[1].has_geom
    /\ Len(resp.routes[1].coordinates) >= 2

\* the leg is accepted: status 200, a non-empty routes list, a geometry in routes[0]
Accepted(resp) ==
    /\ resp.kind = "http"
    /\ resp.status = 200
    /\ resp.routes # <<>>
    /\ resp.routes[1].has_geom

\* route.get("duration", 0)
GetDuration(route) == IF route.has_dur THEN route.duration ELSE 0

\* route.get("distance", 0)
GetDistance(route) == IF route.has_dist THEN route.distance ELSE 0

\* the warning of a leg that is not accepted
LegWarning(resp) ==
    CASE resp.kind = "timeout" -> "timeout"
      [] resp.kind = "error" -> "api_error"
      [] resp.status # 200 -> "api_status"
      [] resp.routes = <<>> -> "no_route"
      [] OTHER -> "api_error"               \* route["geometry"] raises KeyError

(***************************************************************************)
(* Initial state                                                           *)
(***************************************************************************)
InitWith(fileSets, graphs) ==
    /\ files \in fileSets
    /\ G \in graphs
    /\ pc = "boot"
    /\ gdf = <<>>
    /\ bus_routes = {}
    /\ keys = {}
    /\ order = <<>>
    /\ segments = <<>>
    /\ duration = Zero
    /\ distance = Zero
    /\ kpis = DefaultKpis
    /\ stops = <<>>
    /\ snapped = <<>>
    /\ leg = 0
    /\ segs = <<>>
    /\ td = 0
    /\ tl = 0
    /\ resp_log = <<>>
    /\ nreq = 0
    /\ msgs = {}

Init == InitWith(SessionFileSets, Graphs)

locals == <<stops, snapped, leg, segs, td, tl, resp_log>>
catalog == <<files, G, gdf, bus_routes>>

(***************************************************************************)
(* The first script run: load_data, st.stop, DEFAULTS                      *)
(***************************************************************************)
\* a variant that stops only when no route was read
MustStopNoRoutes(loaded) == loaded.bus_routes = {}

\* if gdf is None: st.stop()
MustStop(loaded) == loaded.all_stops = <<>>

(***************************************************************************)
(* The optimize button                                                     *)
(***************************************************************************)
\* cat[cat["route"] == selected_route]["name"].tolist(), for a catalog cat
RouteStopsIn(cat, route) ==
    LET rows == SelectSeqIdx(cat, LAMBDA r : r.route = route)
    IN [k \in 1..Len(rows) |-> rows[k].name]

\* gdf[gdf["route"] == selected_route]["name"].tolist()
RouteStops(route) == RouteStopsIn(gdf, route)

Range(s) == {s[k] : k \in 1..Len(s)}

\* the end selectbox: [s for s in route_stops if s != start], or start when empty
EndChoices(route, start) ==
    IF Range(RouteStops(route)) \ {start} = {} THEN {start}
    ELSE Range(RouteStops(route)) \ {start}

\* 'snapped' in locals() and len(snapped) >= 2
EnoughSnapped(sn) == Len(sn) >= 2

\* the map block raises while it draws the stored segments sg.  A non-empty
\* segment is handed to folium.PolyLine as pairs (pt[1], pt), which a folium
\* that validates its locations rejects; with two non-empty segments the
\* label placement subtracts a list from a number, whatever folium does
MapRaises(sg, validates) ==
    LET drawn == {k \in 1..Len(sg) : sg[k] # <<>>}
    IN \/ validates /\ drawn # {}
       \/ Cardinality(drawn) >= 2

\* except Exception as map_error: st.error(...)
MapMsgs(sg, validates) == IF MapRaises(sg, validates) THEN {"map_error"} ELSE {}

\* the messages a run shows for its selection before any handler: the warning
\* of a route without stops, or those of the snapping block, which every run
\* goes through
SelectionMsgs ==
    UNION {IF RouteStops(route) = <<>>
           THEN {{"no_stops"}}
           ELSE UNION {{Snap(<<start, end>>, edges, raises).msgs :
                           end \in EndChoices(route, start),
                           edges \in {<<>>, G.edges},
                           raises \in BOOLEAN}
                       : start \in Range(RouteStops(route))}
           : route \in bus_routes}

\* the first option of the route selectbox: list(bus_routes.keys())[0], the
\* first route that was read
DefaultRoute(routes) ==
    RouteName(CHOOSE i \in 1..NumRoutes :
                  /\ RouteName(i) \in routes
                  /\ \A j \in 1..(i - 1) : RouteName(j) \notin routes)

\* the messages of a run on the widgets' defaults (first route, its first stop
\* as start, the first other stop as end) with no button pressed, for the
\* catalog cat, the routes read and the stored segments sg
DefaultRunMsgs(cat, routes, sg) ==
    LET names == RouteStopsIn(cat, DefaultRoute(routes))
        start == names[1]
        end == IF Len(names) >= 2 THEN names[2] ELSE start
    IN IF names = <<>>
       THEN {{"no_stops"} \cup MapMsgs(sg, validates) : validates \in BOOLEAN}
       ELSE {SnapIn(cat, <<start, end>>, edges, raises).msgs \cup MapMsgs(sg, validates) :
                edges \in {<<>>, G.edges}, raises \in BOOLEAN, validates \in BOOLEAN}

\* the first script run of a session: load_data, st.stop() on an empty
\* catalog, the defaults, and then the page on the widgets' defaults
LoadData ==
    /\ pc = "boot"
    /\ UNCHANGED <<files, G, locals, nreq>>
    /\ LET loaded == load_data(files)
       IN /\ gdf' = loaded.all_stops
          /\ bus_routes' = loaded.bus_routes
          /\ IF MustStop(loaded)
             THEN /\ pc' = "halted"
                  /\ UNCHANGED <<keys, order, segments, duration, distance, kpis, msgs>>
             ELSE /\ pc' = "idle"
                  /\ keys' = keys \cup DefaultKeys
                  /\ order' = InitDefault("order", order, <<>>)
                  /\ segments' = InitDefault("segments", segments, <<>>)
                  /\ duration' = InitDefault("duration", duration, Zero)
                  /\ distance' = InitDefault("distance", distance, Zero)
                  /\ kpis' = InitDefault("avg_wait_time", kpis, DefaultKpis)
                  /\ \E sm \in DefaultRunMsgs(loaded.all_stops, loaded.bus_routes,
                                                InitDefault("segments", segments, <<>>)) :
                        msgs' = sm

\* the run up to the request loop, for the selection (route, start, end);
\* conv_ok: ox.graph_to_gdfs succeeded; raises: the snapping threw
OptimizeStart(start, end, conv_ok, raises) ==
    LET edges == IF G.ok /\ conv_ok THEN G.edges ELSE <<>>
        sn == Snap(<<start, end>>, edges, raises)
    IN IF EnoughSnapped(sn.snapped)
       THEN /\ pc' = "legs"
            /\ stops' = <<start, end>>
            /\ snapped' = sn.snapped
            /\ leg' = 1
            /\ msgs' = sn.msgs
            /\ UNCHANGED <<segs, td, tl, resp_log>>
       ELSE /\ \E validates \in BOOLEAN :
                  msgs' = sn.msgs \cup MapMsgs(segments, validates)
            /\ UNCHANGED <<pc, locals>>

OptimizeClicked(route, start, end, conv_ok, raises) ==
    /\ pc = "idle"
    /\ route \in bus_routes
    /\ start \in Range(RouteStops(route))
    /\ end \in EndChoices(route, start)
    /\ OptimizeStart(start, end, conv_ok, raises)
    /\ nreq' = 0
    /\ UNCHANGED <<catalog, keys, slot, kpis>>

\* the button on a route without stops: start = end = "정보 없음", nothing is
\* snapped and the handler is skipped
OptimizeNoStops(route) ==
    /\ pc = "idle"
    /\ route \in bus_routes
    /\ RouteStops(route) = <<>>
    /\ \E validates \in BOOLEAN :
          msgs' = {"no_stops"} \cup MapMsgs(segments, validates)
    /\ nreq' = 0
    /\ UNCHANGED <<catalog, pc, keys, slot, kpis, locals>>

\* segs.append(...); td += ...; tl += ...: the three statements in turn, the
\* first += of something that is not a number raises and ends the pass
AddLeg(route) ==
    LET dur == GetDuration(route)
        dist == GetDistance(route)
    IN /\ segs' = Append(segs, route.coordinates)
       /\ td' = IF IsNumber(dur) THEN td + dur ELSE td
       /\ tl' = IF IsNumber(dur) /\ IsNumber(dist) THEN tl + dist ELSE tl
       /\ msgs' = IF IsNumber(dur) /\ IsNumber(dist)
                  THEN msgs ELSE msgs \cup {"api_error"}

\* a variant of the loop body that gives up the whole request on a failed leg
LegStepAbort(resp) ==
    IF Accepted(resp)
    THEN /\ AddLeg(resp.routes[1])
         /\ leg' = leg + 1
    ELSE /\ segs' = <<>>
         /\ td' = 0
         /\ tl' = 0
         /\ msgs' = msgs \cup {LegWarning(resp)}
         /\ leg' = Len(snapped)

\* one pass of the loop body for the response resp
LegStep(resp) ==
    /\ IF Accepted(resp)
       THEN AddLeg(resp.routes[1])
       ELSE /\ msgs' = msgs \cup {LegWarning(resp)}
            /\ UNCHANGED <<segs, td, tl>>
    /\ leg' = leg + 1

\* a variant of the loop that reuses the stored segments when the two names
\* are those of the stored result, and sends no request for them
LegRequestCached(resp) ==
    /\ pc = "legs"
    /\ leg <= Len(snapped) - 1
    /\ IF order = stops
       THEN /\ segs' = segments
            /\ leg' = Len(snapped)
            /\ UNCHANGED <<td, tl, msgs, nreq, resp_log>>
       ELSE /\ LegStep(resp)
            /\ nreq' = nreq + 1
            /\ resp_log' = Append(resp_log, resp)
    /\ UNCHANGED <<catalog, pc, keys, slot, kpis, stops, snapped>>

\* for i in range(len(snapped) - 1): one request
LegRequest(resp) ==
    /\ pc = "legs"
    /\ leg <= Len(snapped) - 1
    /\ LegStep(resp)
    /\ nreq' = nreq + 1
    /\ resp_log' = Append(resp_log, resp)
    /\ UNCHANGED <<catalog, pc, keys, slot, kpis, stops, snapped>>

\* a variant of the commit that leaves stored segments in place
CommitKeepsSegments ==
    /\ order' = stops
    /\ duration' = Quot(td, 60)
    /\ distance' = Quot(tl, 1000)
    /\ segments' = IF segments # <<>> THEN segments ELSE segs

\* st.session_state[...] = stops, td / 60, tl / 1000, segs
Commit ==
    /\ order' = stops
    /\ duration' = Quot(td, 60)
    /\ distance' = Quot(tl, 1000)
    /\ segments' = segs

\* a variant of the failure branch that blanks the result
FailBlank ==
    /\ order' = <<>>
    /\ segments' = <<>>
    /\ duration' = Zero
    /\ distance' = Zero

\* else: st.error("모든 구간의 경로 생성에 실패했습니다.")
Fail == UNCHANGED slot

\* a variant of the end of the handler that runs the loop again when no leg
\* was accepted, instead of reporting the failure
OptimizeFinishRetry ==
    /\ pc = "legs"
    /\ leg > Len(snapped) - 1
    /\ IF segs # <<>>
       THEN /\ Commit
            /\ msgs' = msgs \cup {"success"}
            /\ pc' = "idle"
            /\ stops' = <<>>
            /\ snapped' = <<>>
            /\ leg' = 0
            /\ segs' = <<>>
            /\ td' = 0
            /\ tl' = 0
            /\ resp_log' = <<>>
            /\ UNCHANGED nreq
       ELSE /\ Fail
            /\ leg' = 1
            /\ resp_log' = <<>>
            /\ nreq' = 0
            /\ UNCHANGED <<pc, msgs, stops, snapped, segs, td, tl>>
    /\ UNCHANGED <<catalog, keys, kpis>>

\* if segs: commit, st.rerun()   else: st.error
OptimizeFinish ==
    /\ pc = "legs"
    /\ leg > Len(snapped) - 1
    /\ IF segs # <<>>
       THEN Commit /\ msgs' = msgs \cup {"success"}
       ELSE /\ Fail
            /\ \E validates \in BOOLEAN :
                  msgs' = msgs \cup {"all_failed"} \cup MapMsgs(segments, validates)
    /\ pc' = "idle"
    /\ stops' = <<>>
    /\ snapped' = <<>>
    /\ leg' = 0
    /\ segs' = <<>>
    /\ td' = 0
    /\ tl' = 0
    /\ resp_log' = <<>>
    /\ UNCHANGED <<catalog, keys, kpis, nreq>>

(***************************************************************************)
(* The clear and simulate buttons                                          *)
(***************************************************************************)
\* a variant that forgets to reset the metrics
ClearValueKeep(k, current, empty) ==
    IF k \in keys /\ k \in {"segments", "order"} THEN empty ELSE current

\* for k in keys_to_clear: if k in st.session_state: reset
ClearValue(k, current, empty) == IF k \in keys THEN empty ELSE current

\* the clear button: the sidebar has shown the warning of a selected route
\* without stops before the handler resets the result and reruns the script
ClearClicked ==
    /\ pc = "idle"
    /\ order' = ClearValue("order", order, <<>>)
    /\ segments' = ClearValue("segments", segments, <<>>)
    /\ duration' = ClearValue("duration", duration, Zero)
    /\ distance' = ClearValue("distance", distance, Zero)
    /\ \E route \in bus_routes :
          msgs' = {"cleared"} \cup (IF RouteStops(route) = <<>> THEN {"no_stops"} ELSE {})
    /\ nreq' = 0
    /\ UNCHANGED <<catalog, pc, keys, kpis, locals>>

\* the simulate button: its handler sits inside the map block, after the
\* drawing of the stored segments, and is not reached when that raises
SimulateClicked ==
    /\ pc = "idle"
    /\ \E sm \in SelectionMsgs, validates \in BOOLEAN :
          IF MapRaises(segments, validates)
          THEN /\ kpis' = kpis
               /\ msgs' = sm \cup {"map_error"}
          ELSE /\ kpis' = SimulatedKpis
               /\ msgs' = sm \cup {"simulated"}
    /\ nreq' = 0
    /\ UNCHANGED <<catalog, pc, keys, slot, locals>>

\* a script run with no button pressed: the page and the map are drawn from
\* the session state, which is only read
RenderRun ==
    /\ pc = "idle"
    /\ \E sm \in SelectionMsgs, validates \in BOOLEAN :
          msgs' = sm \cup MapMsgs(segments, validates)
    /\ nreq' = 0
    /\ UNCHANGED <<catalog, pc, keys, slot, kpis, locals>>

(***************************************************************************)
(* The session                                                             *)
(***************************************************************************)
Next ==
    \/ LoadData
    \/ \E route \in bus_routes : OptimizeNoStops(route)
    \/ \E route \in bus_routes :
          \E start \in Range(RouteStops(route)) :
             \E end \in EndChoices(route, start), conv_ok \in BOOLEAN, raises \in BOOLEAN :
                OptimizeClicked(route, start, end, conv_ok, raises)
    \/ \E resp \in Responses : LegRequest(resp)
    \/ OptimizeFinish
    \/ ClearClicked
    \/ SimulateClicked
    \/ RenderRun

Spec == Init /\ [][Next]_vars

\* requests.get(..., timeout=10) always comes back (an answer, a timeout or an
\* exception) and the handler then goes on to its next statement
SpecFair ==
    /\ Init
    /\ [][Next]_vars
    /\ WF_vars(\E resp \in Responses : LegRequest(resp))
    /\ WF_vars(OptimizeFinish)

\* the request loop alone (for i in range(len(snapped) - 1)), entered with any
\* list of two or more snapped points
LegPoints == {<<0, 0>>, <<6, 0>>}

SnappedLists == UNION {[1..n -> LegPoints] : n \in 2..(MaxLegs + 1)}

InitLegs ==
    /\ files = SessionFiles(2)
    /\ G = NoGraph
    /\ pc = "legs"
    /\ gdf = load_data(SessionFiles(2)).all_stops
    /\ bus_routes = load_data(SessionFiles(2)).bus_routes
    /\ keys = DefaultKeys
    /\ order = <<>>
    /\ segments = <<>>
    /\ duration = Zero
    /\ distance = Zero
    /\ kpis = DefaultKpis
    /\ stops = <<StopName(1, 1), StopName(1, 2)>>
    /\ snapped \in SnappedLists
    /\ leg = 1
    /\ segs = <<>>
    /\ td = 0
    /\ tl = 0
    /\ resp_log = <<>>
    /\ nreq = 0
    /\ msgs = {}

NextLegs ==
    \/ \E resp \in Responses : LegRequest(resp)
    \/ OptimizeFinish

SpecLegs == InitLegs /\ [][NextLegs]_vars

\* load_data alone, on every file set
InitLoad == InitWith(FileSets, {NoGraph})

SpecLoad == InitLoad /\ [][LoadData]_vars

(***************************************************************************)
(* Properties of load_data (checked under SpecLoad)                        *)
(***************************************************************************)
Loaded == pc # "boot"

Routes == 1..NumRoutes

\* the catalog rows of route i, in catalog order
RowsOf(i) == SelectSeqIdx(gdf, LAMBDA r : r.route = RouteName(i))

\* the coordinates of the rows of route i
PointsOf(i) == [k \in 1..Len(RowsOf(i)) |-> <<RowsOf(i)[k].lon, RowsOf(i)[k].lat>>]

\* the coordinate sequence file f gives (none when its geometry has no
\* coordinate sequence of its own)
FileCoords(f) ==
    CASE f.kind = "coords" -> f.coords
      [] OTHER -> <<>>

\* file f is read and its coordinates are enumerated without an exception
Parses(f) == f.kind = "coords" /\ (f.dim = 2 \/ FileCoords(f) = <<>>)

\* two catalog points both have coordinates and lie closer than gap metres
Closer(p, q, gap) ==
    /\ ~IsNa(p[1]) /\ ~IsNa(p[2]) /\ ~IsNa(q[1]) /\ ~IsNa(q[2])
    /\ Dist2(p, q) < gap * gap

\* C4: after load_data every route of bus_routes has at least 2
\* stops in the catalog (never 0 or 1).
C4_MinTwoStops ==
    Loaded => \A i \in Routes : RouteName(i) \in bus_routes => Len(RowsOf(i)) >= 2

\* the coordinate sequence the geometry of file f holds, whatever its
\* dimension and whether it is in one part or several
InputCoords(f) ==
    CASE f.kind = "coords" -> f.coords
      [] f.kind = "geoms" -> f.lines[1]
      [] OTHER -> <<>>

\* C5: for any input coordinate sequence of a route, the stops of the route
\* never contain two consecutive stops closer than min_gap_meters (10 m), and
\* the first input coordinate, if any, is emitted as the first stop.
C5_NoCloseNeighbours ==
    Loaded =>
        \A i \in Routes :
            /\ \A k \in 1..(Len(PointsOf(i)) - 1) :
                  ~Closer(PointsOf(i)[k], PointsOf(i)[k + 1], MinGapMeters)
            /\ InputCoords(files[i]) # <<>> =>
                  (PointsOf(i) # <<>> /\ PointsOf(i)[1] = InputCoords(files[i])[1])


\* the file set with every route but i unreadable
OnlyRoute(i) == [j \in Routes |-> IF j = i THEN files[j] ELSE Unreadable]

\* the file set with route i unreadable
WithoutRoute(i) == [j \in Routes |-> IF j = i THEN Unreadable ELSE files[j]]

\* C8: a failure in one route's file does not abort the extraction: the
\* failing route has no stops in the catalog, every route has the stops it
\* yields on its own, and the catalog is the one built without the failing route.
C8_RouteFailureIsolated ==
    Loaded =>
        \A i \in Routes :
            /\ RowsOf(i) = load_data(OnlyRoute(i)).all_stops
            /\ ~Parses(files[i]) =>
                  /\ RowsOf(i) = <<>>
                  /\ gdf = load_data(WithoutRoute(i)).all_stops

\* a failing route between two routes that have their stops in the catalog
C8_Witness ==
    /\ Loaded
    /\ \E i \in 2..(NumRoutes - 1) :
          /\ files[i].kind \in {"raises", "other", "unreadable"}
          /\ \E h \in 1..(i - 1) : RowsOf(h) # <<>>
          /\ \E j \in (i + 1)..NumRoutes : RowsOf(j) # <<>>

\* some route's file yields at least one coordinate
SomeStopExtracted ==
    \E i \in Routes : Parses(files[i]) /\ FileCoords(files[i]) # <<>>

\* C10: the session halts before any UI action if and only if no stop was
\* extracted from any route; otherwise it proceeds, with the session state
\* initialised and a catalog holding the stops of the routes that loaded.
C10_HaltIffNoStops ==
    Loaded =>
        /\ pc = "halted" <=> ~SomeStopExtracted
        /\ pc = "halted" => (keys = {} /\ ~ENABLED Next)
        /\ pc # "halted" =>
              /\ pc = "idle" /\ keys = DefaultKeys
              /\ \A i \in Routes : Parses(files[i]) => PointsOf(i) = FileCoords(files[i])

\* the halted session of a file set whose routes were all read but gave no stop
C10_Witness ==
    /\ pc = "halted"
    /\ bus_routes = {RouteName(i) : i \in Routes}
    /\ gdf = <<>>

(***************************************************************************)
(* Properties of the session (checked under Spec)                          *)
(***************************************************************************)
\* the geometries of the accepted responses of a log, in order
AcceptedGeometries(log) ==
    LET acc == SelectSeqIdx(log, LAMBDA r :
                   r.kind = "http" /\ r.status = 200 /\ r.routes # <<>>
                   /\ r.routes[1].has_geom)
    IN [k \in 1..Len(acc) |-> acc[k].routes[1].coordinates]

RECURSIVE SumDuration(_)
\* the summed duration (s) of the accepted responses of a log, over those
\* that give a number
SumDuration(log) ==
    IF log = <<>> THEN 0
    ELSE LET r == Head(log)
         IN (IF r.kind = "http" /\ r.status = 200 /\ r.routes # <<>>
                /\ r.routes[1].has_geom /\ r.routes[1].has_dur
                /\ r.routes[1].duration # Null
             THEN r.routes[1].duration ELSE 0) + SumDuration(Tail(log))

RECURSIVE SumDistance(_)
\* the summed distance (m) of the accepted responses of a log, over those
\* that give a number
SumDistance(log) ==
    IF log = <<>> THEN 0
    ELSE LET r == Head(log)
         IN (IF r.kind = "http" /\ r.status = 200 /\ r.routes # <<>>
                /\ r.routes[1].has_geom /\ r.routes[1].has_dist
                /\ r.routes[1].distance # Null
             THEN r.routes[1].distance ELSE 0) + SumDistance(Tail(log))

\* the optimize handler ends in this step
Finishing == pc = "legs" /\ pc' = "idle"

\* C1: an optimize request that ends with no accepted leg leaves order,
\* segments, duration and distance as they were before the request: no step
\* of the request before its end touches them, and its end reports the
\* failure and changes none of them.
C1_FailedResolveKeepsResult ==
    [][/\ pc' = "legs" => UNCHANGED slot
       /\ (Finishing /\ AcceptedGeometries(resp_log) = <<>>) =>
             ("all_failed" \in msgs' /\ "success" \notin msgs' /\ UNCHANGED slot)]_vars

\* a reported failure with the earlier result still stored
C1_Witness ==
    /\ pc = "idle"
    /\ "all_failed" \in msgs
    /\ nreq = 1
    /\ segments # <<>>
    /\ order # <<>>

\* the stop named nm is in the catalog and has both coordinates
HasCoordinates(nm) ==
    \E k \in 1..Len(gdf) :
        /\ gdf[k].name = nm
        /\ \A m \in 1..(k - 1) : gdf[m].name # nm
        /\ ~IsNa(gdf[k].lon)
        /\ ~IsNa(gdf[k].lat)

\* C2: an optimize click whose start or end stop has no catalog entry or no
\* coordinates issues no remote request (the request loop is not entered) and
\* leaves order, segments, duration and distance unchanged: a step from the
\* idle page either does just that, or enters the loop with two stops that
\* have coordinates, or is not such a click.
C2_MissingStopIsolated ==
    [][pc = "idle" =>
          \/ (pc' = "idle" /\ nreq' = 0 /\ resp_log' = <<>> /\ UNCHANGED slot)
          \/ (pc' = "legs" /\ HasCoordinates(stops'[1]) /\ HasCoordinates(stops'[2]))
          \/ \A route \in bus_routes :
                \A start \in Range(RouteStops(route)), end \in Range(RouteStops(route)),
                   conv_ok \in BOOLEAN, raises \in BOOLEAN :
                   ~(/\ ~(HasCoordinates(start) /\ HasCoordinates(end))
                     /\ OptimizeClicked(route, start, end, conv_ok, raises))]_vars

\* a click on a stop without coordinates was skipped and the stored result is intact
C2_Witness ==
    /\ pc = "idle"
    /\ "no_coords" \in msgs
    /\ nreq = 0
    /\ segments # <<>>
    /\ order # <<>>

\* C3: when every leg's remote request fails and a road graph is
\* available, the resolve still ends with a non-empty result committed.
C3_FallbackCommits ==
    [][(Finishing /\ G.ok /\ AcceptedGeometries(resp_log) = <<>>) =>
          ("success" \in msgs' /\ order' = stops /\ segments' # <<>>)]_vars

\* C6: a successful resolve stores the requested pair [start, end] as order,
\* the accepted legs' geometries as segments, the sum of their durations / 60
\* as duration and the sum of their distances / 1000 as distance (a leg whose
\* geometry is stored is an accepted leg).
C6_CommitStoresSums ==
    [][(Finishing /\ "success" \in msgs') =>
          /\ order' = stops
          /\ Len(stops) = 2
          /\ segments' = AcceptedGeometries(resp_log)
          /\ segments' # <<>>
          /\ duration' = Quot(SumDuration(resp_log), 60)
          /\ distance' = Quot(SumDistance(resp_log), 1000)]_vars


\* C7: the clear button resets the current result, whatever was stored:
\* afterwards order = [], segments = [], duration = 0.0 and distance = 0.0.
C7_ClearResets ==
    [][ClearClicked =>
          (order' = <<>> /\ segments' = <<>> /\ duration' = Zero /\ distance' = Zero)]_vars

\* the state right after a clear: the result is empty
C7_Witness ==
    /\ pc = "idle"
    /\ msgs = {"cleared"}
    /\ order = <<>>
    /\ segments = <<>>
    /\ duration = Zero
    /\ distance = Zero

(***************************************************************************)
(* Properties of the request loop (checked under SpecLegs)                 *)
(***************************************************************************)
FailureKinds == {"timeout", "api_error", "api_status", "no_route"}

\* C9: a failed leg (network error, timeout, non-200 status, empty routes
\* list) is confined to that leg: the loop goes on, so the handler ends only
\* after one request per leg, and what it has accepted at any point, and
\* commits at the end, is exactly the legs that succeeded.
C9_LegFailureConfined ==
    [][pc = "legs" =>
          IF pc' = "legs"
          THEN /\ leg <= Len(snapped) - 1
               /\ leg' = leg + 1
               /\ nreq' = nreq + 1
               /\ Len(resp_log') = nreq'
               /\ segs' = AcceptedGeometries(resp_log')
          ELSE /\ nreq = Len(snapped) - 1
               /\ Len(resp_log) = Len(snapped) - 1
               /\ AcceptedGeometries(resp_log) # <<>> =>
                     /\ "success" \in msgs'
                     /\ segments' = AcceptedGeometries(resp_log)]_vars

\* two legs were requested, one failed and the other was accepted and committed
C9_Witness ==
    /\ pc = "idle"
    /\ nreq = 2
    /\ msgs \cap FailureKinds # {}
    /\ "success" \in msgs
    /\ Len(segments) = 1

(***************************************************************************)
(* Requests whose two names are the same stop                              *)
(***************************************************************************)
\* C11: no resolve is performed for a request whose start and end are the
\* same stop (a selected route with a single stop, where the end selection
\* defaults to the start): the request loop is never entered with two equal
\* names and no stored result ever carries the same name twice.
C11_NoSameStopResolve ==
    /\ pc = "legs" => stops[1] # stops[2]
    /\ (pc = "idle" /\ Len(order) = 2) => order[1] # order[2]

(***************************************************************************)
(* Length of the accepted geometries                                       *)
(***************************************************************************)
\* a 200 answer whose first route carries a geometry, however many points
FirstRouteHasGeometry(resp) ==
    /\ resp.kind = "http"
    /\ resp.status = 200
    /\ Len(resp.routes) > 0
    /\ resp.routes[1].has_geom

\* the duration and the distance of a route are numbers, or absent
NumericMetrics(route) ==
    /\ route.has_dur => route.duration # Null
    /\ route.has_dist => route.distance # Null

\* C13 as written: a leg is accepted only if its first route carries at least
\* 2 coordinate points, so every stored segment and every segment accepted so
\* far has 2 coordinates or more.
C13_SegmentsHaveTwoPoints ==
    /\ \A k \in 1..Len(segments) : Len(segments[k]) >= 2
    /\ \A k \in 1..Len(segs) : Len(segs[k]) >= 2

\* C13: a leg is accepted exactly when the answer has status 200 and a first
\* route with a geometry, whatever the number of its coordinate points: the
\* coordinates of routes[0] are appended as they are, also when there are 0 or
\* 1 of them, and the leg is not reported as failed when its duration and
\* distance are numbers; any other answer appends nothing and is reported.
C13_AcceptedWhateverLength ==
    [][\A resp \in Responses :
          LegRequest(resp) =>
             IF FirstRouteHasGeometry(resp)
             THEN /\ segs' = Append(segs, resp.routes[1].coordinates)
                  /\ NumericMetrics(resp.routes[1]) => msgs' = msgs
             ELSE /\ segs' = segs
                  /\ msgs' \ msgs \subseteq FailureKinds]_vars

\* a request stored a segment without coordinates and reported success
C13_Witness ==
    /\ pc = "idle"
    /\ "success" \in msgs
    /\ msgs \cap FailureKinds = {}
    /\ \E k \in 1..Len(segments) : Len(segments[k]) < 2

(***************************************************************************)
(* Stop names (checked under SpecLoad)                                     *)
(***************************************************************************)
\* the indices of the catalog rows whose name is nm
RowsNamed(nm) == {k \in 1..Len(gdf) : gdf[k].name = nm}

\* C14: stop names are unique. Within a route the stops are numbered 1, 2, ...
\* in the order of the geometry, no two rows of the catalog share a name, and
\* the row the resolver takes for a name offered by the selected route (the
\* first match by exact name) is a row of that route.
C14_StopNamesUnique ==
    Loaded =>
       /\ \A k, m \in 1..Len(gdf) : gdf[k].name = gdf[m].name => k = m
       /\ \A i \in 1..NumRoutes :
             \A n \in 1..Len(RowsOf(i)) :
                /\ RowsOf(i)[n].name = RouteName(i) \o " " \o ToString(n) \o "-stop"
                /\ Cardinality(RowsNamed(RowsOf(i)[n].name)) = 1
       /\ \A route \in bus_routes :
             \A nm \in Range(RouteStops(route)) :
                /\ MatchingRows(nm) # <<>>
                /\ MatchingRows(nm)[1].route = route

\* two routes of the catalog have two stops or more each, so the same ordinals
\* occur on different routes
C14_Witness ==
    /\ Loaded
    /\ \E i, j \in 1..NumRoutes :
          /\ i # j
          /\ Len(RowsOf(i)) >= 2
          /\ Len(RowsOf(j)) >= 2
          /\ RouteName(i) \in bus_routes
          /\ RouteName(j) \in bus_routes

(***************************************************************************)
(* Termination of a request (checked under SpecFair)                       *)
(***************************************************************************)
\* C15: every request that enters the request loop ends: it leaves the loop
\* for the idle page, and the step that ends it has exactly one of two
\* outcomes, the success message with the new result stored or the failure
\* message with order, segments, duration and distance untouched.
C15_ResolveTerminates ==
    /\ (pc = "legs") ~> (pc = "idle")
    /\ [][Finishing =>
             /\ ("success" \in msgs') # ("all_failed" \in msgs')
             /\ "success" \in msgs' => (order' = stops /\ segments' = segs /\ segs # <<>>)
             /\ "all_failed" \in msgs' => UNCHANGED slot]_vars

\* a request ended with the failure message while an earlier result is stored
C15_Witness ==
    /\ pc = "idle"
    /\ nreq = 1
    /\ "all_failed" \in msgs
    /\ order # <<>>

(***************************************************************************)
(* A session without a road graph                                          *)
(***************************************************************************)
\* the catalog coordinates of the first row named nm
OwnCoordinates(nm) ==
    LET k == CHOOSE k \in 1..Len(gdf) :
                 gdf[k].name = nm /\ \A m \in 1..(k - 1) : gdf[m].name # nm
    IN <<gdf[k].lon, gdf[k].lat>>

\* C16: a missing road graph does not end the session. When load_graph gave
\* no graph, or the conversion to edges failed, an optimize click on two stops
\* that have coordinates enters the request loop with each stop at its own
\* catalog coordinates and without a snapping error (the snapped list of
\* such a selection always passes len(snapped) >= 2); the request then ends
\* with the success or the failure message, and no step after the catalog
\* was loaded halts the page.
C16_NoGraphStillResolves ==
    /\ [](pc = "idle" =>
             \A route \in bus_routes :
                \A start \in Range(RouteStops(route)) :
                   \A end \in EndChoices(route, start),
                      conv_ok \in BOOLEAN, raises \in BOOLEAN :
                      (/\ ~G.ok \/ ~conv_ok
                       /\ HasCoordinates(start)
                       /\ HasCoordinates(end))
                      => LET sn == Snap(<<start, end>>,
                                        IF G.ok /\ conv_ok THEN G.edges ELSE <<>>,
                                        raises)
                         IN /\ EnoughSnapped(sn.snapped)
                            /\ sn.snapped = <<OwnCoordinates(start), OwnCoordinates(end)>>)
    /\ [][/\ (pc = "idle" /\ pc' = "legs") =>
                \A conv_ok \in BOOLEAN, raises \in BOOLEAN :
                   (/\ ~G.ok \/ ~conv_ok
                    /\ OptimizeStart(stops'[1], stops'[2], conv_ok, raises))
                   => /\ snapped' = <<OwnCoordinates(stops'[1]), OwnCoordinates(stops'[2])>>
                      /\ "snap_error" \notin msgs'
          /\ Finishing => ("success" \in msgs' \/ "all_failed" \in msgs')
          /\ pc \in {"idle", "legs"} => pc' \in {"idle", "legs"}]_vars

\* without a graph, a request on two different stops was sent from their own
\* catalog coordinates
C16_Witness ==
    /\ pc = "legs"
    /\ ~G.ok
    /\ nreq = 1
    /\ stops[1] # stops[2]
    /\ snapped = <<OwnCoordinates(stops[1]), OwnCoordinates(stops[2])>>

(***************************************************************************)
(* One request per leg, every time                                         *)
(***************************************************************************)
\* C17: answers are never reused and a leg is never retried. Every step of
\* the request loop sends one request and moves to the next leg, whatever the
\* answer and whether or not the same two names are the stored result, and
\* the handler ends after exactly one request per consecutive pair of snapped
\* points; an optimize click itself sends none.
C17_OneRequestPerLeg ==
    [][/\ (pc = "idle" /\ pc' = "legs") => (nreq' = 0 /\ leg' = 1 /\ resp_log' = <<>>)
       /\ (pc = "legs" /\ pc' = "legs") =>
             /\ leg' = leg + 1
             /\ nreq' = nreq + 1
             /\ nreq' = leg
             /\ Len(resp_log') = nreq'
       /\ Finishing =>
             /\ nreq = Len(snapped) - 1
             /\ leg = Len(snapped)
             /\ nreq' = nreq]_vars

\* the two names of the stored result were requested again, and a request
\* was sent for them
C17_Witness ==
    /\ pc = "legs"
    /\ order # <<>>
    /\ order = stops
    /\ nreq = 1

(***************************************************************************)
(* Consistency of the stored result                                        *)
(***************************************************************************)
\* the stored result is reset to its defaults
SlotEmpty == order = <<>> /\ segments = <<>> /\ duration = Zero /\ distance = Zero

\* C18: once the defaults are set, in every state the stored result is
\* consistent: order is empty exactly when segments is; when they are empty,
\* duration and distance are 0.0; when they are not, order is two names of one
\* route of the catalog and segments holds one segment (len(order) - 1).  The
\* names a request carries are the two requested at its click and stay the
\* same until it ends, and the four values only change together: a step that
\* changes any of them either resets all four (clear) or is the commit of one
\* request, which stores that request's names as order, the geometries of
\* that request's accepted answers as segments and that request's
\* accumulated duration and distance.
C18_SlotConsistent ==
    /\ [](pc \in {"idle", "legs"} =>
             /\ order = <<>> <=> segments = <<>>
             /\ order = <<>> => (duration = Zero /\ distance = Zero)
             /\ order # <<>> =>
                   /\ Len(order) = 2
                   /\ Len(segments) = Len(order) - 1
                   /\ \E route \in bus_routes :
                         /\ order[1] \in Range(RouteStops(route))
                         /\ order[2] \in Range(RouteStops(route)))
    /\ [][/\ ((pc = "idle" /\ pc' = "legs") =>
                 \E route \in bus_routes :
                    \E start \in Range(RouteStops(route)) :
                       \E end \in EndChoices(route, start) : stops' = <<start, end>>)
           /\ ((pc = "legs" /\ pc' = "legs") => stops' = stops)
           /\ ((pc # "boot" /\ slot' # slot) =>
                 \/ (pc = "idle" /\ pc' = "idle" /\ SlotEmpty' /\ "cleared" \in msgs')
                 \/ (/\ Finishing
                     /\ "success" \in msgs'
                     /\ order' = stops
                     /\ segments' = AcceptedGeometries(resp_log)
                     /\ segments' = segs
                     /\ duration' = Quot(td, 60)
                     /\ distance' = Quot(tl, 1000)))]_vars

\* a result is stored and the simulate button was pressed after it
C18_Witness ==
    /\ pc = "idle"
    /\ msgs = {"simulated"}
    /\ Len(order) = 2
    /\ Len(segments) = 1
    /\ duration # Zero

====
